---- MODULE Spec2Model ----
(***************************************************************************)
(* Attendance verification core of AIAttend: the four edge functions       *)
(* generate-qr, verify-qr, verify-face and verify-proximity, run as        *)
(* concurrent request handlers over the shared relational store.           *)
(*                                                                         *)
(* Every database round trip of a handler is one atomic step, so that the  *)
(* handlers interleave exactly where the code awaits the store.  Times are *)
(* milliseconds (Date.now()), coordinates are micro-degrees, distances are *)
(* millimetres, match scores are hundredths.                               *)
(***************************************************************************)
EXTENDS Integers, Sequences, FiniteSets, TLC

VARIABLES
    now,                 \* Date.now() / the store's now(), in ms
    classes,             \* table classes: id -> row
    attendance_sessions, \* table attendance_sessions: id -> row
    session_secrets,     \* table session_secrets: session_id -> qr_secret
    attendance_records,  \* table attendance_records: rows in insertion order
    issued,              \* tokens handed out by generate-qr (held by clients)
    issueCount,          \* number of crypto.randomUUID() draws so far
    req,                 \* one handler invocation per client process
    twin                 \* bookkeeping of a pair of runs that are compared

vars == <<now, classes, attendance_sessions, session_secrets,
          attendance_records, issued, issueCount, req, twin>>

----------------------------------------------------------------------------
(* Bounds of the model *)

MaxNow == 60000

MaxIssues == 1

(* Program constants *)

TokenValidityMs == 30000

\* The clock is sampled once per token lifetime
TickMs == TokenValidityMs

LateAfterMs == 600000

DefaultRadiusMeters == 50

FaceMatchThreshold == 75

EarthRadiusKm == 6371

----------------------------------------------------------------------------
(* Optional values: null / undefined is the empty tuple *)

None == <<>>

Some(x) == <<x>>

IsSome(o) == o # <<>>

Val(o) == o[1]

----------------------------------------------------------------------------
(* Rows of the store that the check-in core only reads *)

Students == {"stu1", "stu2"}

Professors == {"prof1", "prof2"}

Users == Students \cup Professors

Sessions == {"sA", "sB"}

SessionIds == Sessions \cup {"sX"}

ClassIds == {"c1", "c2"}

\* The classes as their professors set them up: c1 with a geofence of 50 m
\* around (0, 0), c2 without one
ClassesTable ==
    [c \in ClassIds |->
        IF c = "c1"
        THEN [professor_id |-> "prof1", latitude |-> Some(0),
              longitude |-> Some(0), proximity_radius_meters |-> Some(50)]
        ELSE [professor_id |-> "prof2", latitude |-> None,
              longitude |-> None, proximity_radius_meters |-> None]]

class_enrollments == {<<"c1", "stu1">>, <<"c2", "stu2">>}

face_embeddings == {"stu1", "stu2"}

SessionClass == [s \in Sessions |-> IF s = "sA" THEN "c1" ELSE "c2"]

\* sA started ten minutes before the model's time 0, sB starts at time 0
SessionStart == [s \in Sessions |-> IF s = "sA" THEN 0 - LateAfterMs ELSE 0]

----------------------------------------------------------------------------
(* Bearer credentials.  A credential is what the Authorization header      *)
(* carries: the JWT claims sub and exp, and whether the identity provider  *)
(* would accept its signature.                                              *)

NoHeader ==
    [header |-> FALSE, wellformed |-> FALSE, sub |-> None, exp |-> None,
     authentic |-> FALSE]

Credential(u, e, a) ==
    [header |-> TRUE, wellformed |-> TRUE, sub |-> Some(u), exp |-> e,
     authentic |-> a]

FarFuture == 100 * TokenValidityMs

LongAgo == 0 - FarFuture

Malformed ==
    [header |-> TRUE, wellformed |-> FALSE, sub |-> None, exp |-> None,
     authentic |-> FALSE]

\* supabaseAuth.auth.getUser(): the identity provider accepts a credential
\* only if it signed it and it has not expired.
getUser(cred, t) ==
    IF cred.header /\ cred.wellformed /\ cred.authentic /\ IsSome(cred.sub)
       /\ IsSome(cred.exp) /\ Val(cred.exp) >= t
    THEN cred.sub
    ELSE None

\* generate-qr: djwt decode() of the bearer token, exp and sub checks only.
decodeUser(cred, t) ==
    IF ~cred.wellformed THEN None
    ELSE IF IsSome(cred.exp) /\ Val(cred.exp) < t THEN None
    ELSE cred.sub

----------------------------------------------------------------------------
(* Session tokens *)

\* HMAC-SHA256 under the service key of JSON.stringify({sessionId,
\* timestamp, secret, expiresAt}): an unforgeable function of the four
\* fields, in that order.
Sign(sessionId, timestamp, secret, expiresAt) ==
    <<sessionId, timestamp, secret, expiresAt>>

Token(sessionId, timestamp, secret) ==
    [sessionId |-> sessionId, timestamp |-> timestamp, secret |-> secret,
     expiresAt |-> timestamp + TokenValidityMs,
     signature |-> Sign(sessionId, timestamp, secret,
                        timestamp + TokenValidityMs)]

\* Date.now() > expiresAt
TokenExpiredLate(t, at) == at > t.expiresAt + TokenValidityMs

TokenExpired(t, at) == at > t.expiresAt

SignatureValidWithoutExpiry(t) ==
    SubSeq(t.signature, 1, 3) = <<t.sessionId, t.timestamp, t.secret>>

SignatureValidWithoutSession(t) ==
    SubSeq(t.signature, 2, 4) = <<t.timestamp, t.secret, t.expiresAt>>

\* crypto.subtle.verify over the fields the client presented
SignatureValid(t) ==
    t.signature = Sign(t.sessionId, t.timestamp, t.secret, t.expiresAt)

\* The secret of the last token that the pre-migration generate-qr issued,
\* copied into session_secrets by the migration.
MigratedSecret == 0

MigratedToken(s) == Token(s, 0, MigratedSecret)

----------------------------------------------------------------------------
(* Request bodies *)

NoToken == Token("sX", 0, 0 - 1)

\* qrData of the verify-qr body: absent, not JSON, or a JSON payload
QrMissing == [form |-> "missing", payload |-> NoToken]

QrGarbage == [form |-> "garbage", payload |-> NoToken]

QrJson(t) == [form |-> "json", payload |-> t]

\* What a client can do to a token it holds: present it as issued, or change
\* one field and keep the signature.
Tampered(t) ==
    { [t EXCEPT !.expiresAt = t.expiresAt + TokenValidityMs],
      [t EXCEPT !.timestamp = t.timestamp + TickMs],
      [t EXCEPT !.secret = t.secret + 1],
      [t EXCEPT !.sessionId = IF t.sessionId = "sA" THEN "sB" ELSE "sA"] }

Presentable(tokens) == tokens \cup UNION { Tampered(t) : t \in tokens }

QrBodies(tokens) ==
    {QrMissing, QrGarbage} \cup { QrJson(t) : t \in Presentable(tokens) }

\* Bodies of verify-proximity and verify-face.  Coordinates are
\* micro-degrees; 449, 450 and 500 micro-degrees of latitude are 49.9 m,
\* 50.0 m (just outside a 50 m fence) and 55.6 m.  A body is a
\* well-formed check-in at the classroom's position, or differs from one in
\* a single field.
Body(sessionId, classId, latitude, longitude, imageBase64) ==
    [sessionId |-> sessionId, classId |-> classId, latitude |-> latitude,
     longitude |-> longitude, accuracy |-> None,
     imageBase64 |-> imageBase64]

OtherClass(c) == IF c = "c1" THEN "c2" ELSE "c1"

GoodBody(s) == Body(Some(s), Some(SessionClass[s]), Some(0), Some(0), TRUE)

PositionVariants(b) ==
    { b,
      [b EXCEPT !.latitude = None],
      [b EXCEPT !.longitude = None],
      [b EXCEPT !.latitude = Some(500)],
      [b EXCEPT !.latitude = Some(91000000)] }

\* The neighbouring positions on either side of a 50 m fence around (0, 0)
BoundaryVariants(b) ==
    { [b EXCEPT !.latitude = Some(449)], [b EXCEPT !.latitude = Some(450)] }

SessionVariants(b) ==
    { [b EXCEPT !.sessionId = None], [b EXCEPT !.sessionId = Some("sX")] }

ProximityBodies ==
    UNION { PositionVariants(GoodBody(s))
              \cup { [GoodBody(s) EXCEPT !.classId = None],
                     [GoodBody(s) EXCEPT !.classId =
                                         Some(OtherClass(SessionClass[s]))] }
            : s \in Sessions }
      \cup SessionVariants(GoodBody("sA"))
      \cup BoundaryVariants(GoodBody("sA"))

FaceBodies ==
    UNION { PositionVariants([GoodBody(s) EXCEPT !.classId = None])
              \cup { [GoodBody(s) EXCEPT !.classId = None,
                                         !.imageBase64 = FALSE] }
            : s \in Sessions }
      \cup SessionVariants([GoodBody("sA") EXCEPT !.classId = None])
      \cup BoundaryVariants([GoodBody("sA") EXCEPT !.classId = None])

IssueBodies == {None} \cup { Some(s) : s \in SessionIds }

CheckInCreds ==
    { NoHeader,
      Credential("stu1", Some(FarFuture), TRUE),
      Credential("stu2", Some(FarFuture), TRUE),
      Credential("stu1", Some(LongAgo), TRUE) }

IssueCreds ==
    { NoHeader, Malformed,
      Credential("prof1", Some(FarFuture), TRUE),
      Credential("prof2", Some(FarFuture), TRUE),
      Credential("prof1", Some(LongAgo), TRUE),
      Credential("prof1", Some(FarFuture), FALSE),
      Credential("prof1", None, FALSE) }

\* The requests of the racing clients: one enrolled student's well-formed
\* check-ins into session sA.
RaceCreds == { Credential("stu1", Some(FarFuture), TRUE) }

RaceQrBodies(tokens) == { QrJson(t) : t \in tokens }

RaceBodies == { GoodBody("sA") }

----------------------------------------------------------------------------
(* Handler invocations *)

Procs == {"a", "b"}

\* No handler is running
Quiet == \A p \in Procs : req[p].pc = "idle"

\* No reply is waiting to be delivered
Settled == \A p \in Procs : req[p].pc # "done"

Idle ==
    [kind |-> "none", pc |-> "idle", cred |-> NoHeader, user |-> None,
     qrData |-> QrMissing, imageBase64 |-> FALSE,
     sessionId |-> None, classId |-> None,
     latitude |-> None, longitude |-> None, accuracy |-> None,
     session |-> None, sessionSecret |-> None, existingRecord |-> None,
     distance |-> None, verificationScore |-> None,
     matchScore |-> None, oracle |-> None, insertError |-> None,
     checkedAt |-> 0, outcome |-> "none", status |-> 0, success |-> FALSE,
     token |-> None]

\* return new Response(...): the invocation ends
Respond(r, outcome, status, success) ==
    [r EXCEPT !.pc = "done", !.outcome = outcome, !.status = status,
              !.success = success]

Goto(r, pc) == [r EXCEPT !.pc = pc]

----------------------------------------------------------------------------
(* The store *)

\* Columns of attendance_sessions after the migration that moved qr_secret
\* into session_secrets
AttendanceSessionsColumns ==
    {"class_id", "created_at", "date", "end_time", "id", "is_active",
     "start_time", "updated_at"}

\* supabase.from('attendance_sessions').update({column: value}).eq('id', id):
\* an update that names a column the table does not have is refused by the
\* store and returned as { error }, which leaves the table as it was.
UpdateSession(table, id, column, value) ==
    IF column \in AttendanceSessionsColumns /\ id \in DOMAIN table
    THEN [table EXCEPT ![id] = [@ EXCEPT ![column] = value]]
    ELSE table

\* .from('attendance_sessions').select(...).eq('id', id).single()
SessionRow(id) ==
    IF id \in DOMAIN attendance_sessions
    THEN Some(attendance_sessions[id])
    ELSE None

ActiveSessionRowAnyState(id) == SessionRow(id)

\* ... .eq('id', id).eq('is_active', true).single()
ActiveSessionRow(id) ==
    IF id \in DOMAIN attendance_sessions /\ attendance_sessions[id].is_active
    THEN Some(attendance_sessions[id])
    ELSE None

EnrolledAnyone(c, u) == c \in ClassIds

\* .from('class_enrollments').select('id').eq('class_id', c).eq('student_id', u)
Enrolled(c, u) == <<c, u>> \in class_enrollments

\* .from('attendance_records').select('id').eq('session_id', s)
\*    .eq('student_id', u)
ExistingRecord(s, u) ==
    \E i \in 1..Len(attendance_records) :
        /\ attendance_records[i].session_id = s
        /\ attendance_records[i].student_id = u

\* insertError.code of a refused duplicate
UniqueViolationCode == "23505"

UniqueViolationNever(row) == FALSE

\* The uniqueness constraint of attendance_records on (session_id,
\* student_id): Postgres refuses the insert with code 23505.
UniqueViolation(row) == ExistingRecord(row.session_id, row.student_id)

Row(s, c, u, method, status, score) ==
    [session_id |-> s, class_id |-> c, student_id |-> u,
     method_used |-> method, status |-> status,
     verification_score |-> score]

----------------------------------------------------------------------------
(* Haversine distance.  Angles are nano-radians, the result is millimetres. *)
(* On the coordinates of the model (points within a hundredth of a degree  *)
(* of each other) sin x = x and atan2(s, sqrt(1 - s*s)) = s to the         *)
(* resolution of these units; the cosine of a latitude is in hundredths.   *)
(* Rounding is towards zero, as negation is exact in floating point.       *)

RECURSIVE SqrtBetween(_, _, _)
SqrtBetween(n, lo, hi) ==
    IF lo >= hi THEN lo
    ELSE LET mid == (lo + hi + 1) \div 2
         IN  IF mid * mid <= n THEN SqrtBetween(n, mid, hi)
             ELSE SqrtBetween(n, lo, mid - 1)

Sqrt(n) == SqrtBetween(n, 0, 46340)

Scale(x, num, den) ==
    IF x >= 0 THEN (x * num) \div den ELSE 0 - (((0 - x) * num) \div den)

\* (deg * Math.PI) / 180
ToRadians(microdeg) == Scale(microdeg, 174533, 10000)

\* Math.cos((deg * Math.PI) / 180), in hundredths: the angle in tenths of a
\* milliradian, then the series 1 - x^2/2 + x^4/24 - x^6/720
Cos(microdeg) ==
    LET millideg == (IF microdeg >= 0 THEN microdeg ELSE 0 - microdeg)
                       \div 1000
        x == (millideg * 17453) \div 100000
        x2 == x * x
        k == x2 \div 100000
        permille == 1000 - (x2 \div 200000) + ((k * k) \div 24000)
                       - ((((k * k) \div 1000) * k) \div 720000)
    IN  (permille + 5) \div 10

calculateDistanceOwnLatitude(lat1, lon1, lat2, lon2) ==
    LET dphi == ToRadians(lat2 - lat1)
        dlambda == ToRadians(lon2 - lon1)
        sinHalfPhi == Scale(dphi, 1, 2)
        sinHalfLambda == Scale(dlambda, 1, 2)
        a == sinHalfPhi * sinHalfPhi
               + (((Cos(lat1) * Cos(lat1)) \div 100)
                     * (sinHalfLambda * sinHalfLambda)) \div 100
        c == 2 * Sqrt(a)
    IN  (EarthRadiusKm * c) \div 1000

calculateDistance(lat1, lon1, lat2, lon2) ==
    LET dphi == ToRadians(lat2 - lat1)
        dlambda == ToRadians(lon2 - lon1)
        sinHalfPhi == Scale(dphi, 1, 2)
        sinHalfLambda == Scale(dlambda, 1, 2)
        a == sinHalfPhi * sinHalfPhi
               + (((Cos(lat1) * Cos(lat2)) \div 100)
                     * (sinHalfLambda * sinHalfLambda)) \div 100
        c == 2 * Sqrt(a)
    IN  (EarthRadiusKm * c) \div 1000

\* Math.round(distance), in metres
RoundMeters(mm) == (mm + 500) \div 1000

\* latitude < -90 || latitude > 90 || longitude < -180 || longitude > 180
OutOfRange(latitude, longitude) ==
    \/ latitude < 0 - 90000000 \/ latitude > 90000000
    \/ longitude < 0 - 180000000 \/ longitude > 180000000

\* classData.proximity_radius_meters || 50, in millimetres
AllowedRadius(classData) ==
    IF IsSome(classData.proximity_radius_meters)
       /\ Val(classData.proximity_radius_meters) # 0
    THEN Val(classData.proximity_radius_meters) * 1000
    ELSE DefaultRadiusMeters * 1000

GeofenceConfigured(classData) ==
    IsSome(classData.latitude) /\ IsSome(classData.longitude)

TooFarAtBoundary(distance, allowedRadius) == distance >= allowedRadius

\* distance > allowedRadius
TooFar(distance, allowedRadius) == distance > allowedRadius

----------------------------------------------------------------------------
(* verify-qr *)

QrEntrySignatureFirst(r) ==
    LET payload == r.qrData.payload
        user == getUser(r.cred, now)
    IN  IF ~r.cred.header THEN Respond(r, "Unauthenticated", 401, FALSE)
        ELSE IF ~IsSome(user) THEN Respond(r, "Unauthenticated", 401, FALSE)
        ELSE IF r.qrData.form = "missing"
             THEN Respond([r EXCEPT !.user = user], "MissingFields", 400, FALSE)
        ELSE IF r.qrData.form = "garbage"
             THEN Respond([r EXCEPT !.user = user], "BadFormat", 400, FALSE)
        ELSE IF ~SignatureValid(payload)
             THEN Respond([r EXCEPT !.user = user, !.checkedAt = now],
                          "InvalidSignature", 400, FALSE)
        ELSE IF TokenExpired(payload, now)
             THEN Respond([r EXCEPT !.user = user, !.checkedAt = now],
                          "Expired", 400, FALSE)
        ELSE [r EXCEPT !.user = user, !.checkedAt = now,
                       !.sessionId = Some(payload.sessionId),
                       !.pc = "qr_session"]

\* Lines 17-97: Authorization header, getUser, qrData, JSON.parse, expiry
\* against Date.now(), HMAC verification.
QrEntry(r) ==
    LET payload == r.qrData.payload
        user == getUser(r.cred, now)
    IN  IF ~r.cred.header THEN Respond(r, "Unauthenticated", 401, FALSE)
        ELSE IF ~IsSome(user) THEN Respond(r, "Unauthenticated", 401, FALSE)
        ELSE IF r.qrData.form = "missing"
             THEN Respond([r EXCEPT !.user = user], "MissingFields", 400, FALSE)
        ELSE IF r.qrData.form = "garbage"
             THEN Respond([r EXCEPT !.user = user], "BadFormat", 400, FALSE)
        ELSE IF TokenExpired(payload, now)
             THEN Respond([r EXCEPT !.user = user, !.checkedAt = now],
                          "Expired", 400, FALSE)
        ELSE IF ~SignatureValid(payload)
             THEN Respond([r EXCEPT !.user = user, !.checkedAt = now],
                          "InvalidSignature", 400, FALSE)
        ELSE [r EXCEPT !.user = user, !.checkedAt = now,
                       !.sessionId = Some(payload.sessionId),
                       !.pc = "qr_session"]

\* The body of a verify-qr request is read as { qrData }: coordinates that
\* a client sends along are in the body and are not destructured.
SubmitQrFrom(p, creds, bodies, positions) ==
    /\ req[p].pc = "idle"
    /\ \E cred \in creds, qrData \in bodies, position \in positions :
          req' = [req EXCEPT ![p] =
                     QrEntry([Idle EXCEPT !.kind = "qr", !.cred = cred,
                                          !.qrData = qrData,
                                          !.latitude = position[1],
                                          !.longitude = position[2]])]
    /\ UNCHANGED <<now, classes, attendance_sessions, session_secrets,
                   attendance_records, issued, issueCount, twin>>

\* The scanner client sends qrData alone
SubmitQr(p, creds, bodies) == SubmitQrFrom(p, creds, bodies, {<<None, None>>})

\* Lines 99-112: the session must exist and be active
QrSessionLookup(p) ==
    /\ req[p].kind = "qr" /\ req[p].pc = "qr_session"
    /\ LET r == req[p]
           session == ActiveSessionRow(Val(r.sessionId))
       IN  req' = [req EXCEPT ![p] =
                      IF ~IsSome(session)
                      THEN Respond(r, "SessionInactive", 404, FALSE)
                      ELSE [r EXCEPT !.session = session, !.pc = "qr_secret"]]
    /\ UNCHANGED <<now, classes, attendance_sessions, session_secrets,
                   attendance_records, issued, issueCount, twin>>

\* Lines 114-126: the payload's secret must equal the stored one
QrSecretLookup(p) ==
    /\ req[p].kind = "qr" /\ req[p].pc = "qr_secret"
    /\ LET r == req[p]
           sessionSecret == session_secrets[Val(r.sessionId)]
       IN  req' = [req EXCEPT ![p] =
                      IF ~IsSome(sessionSecret)
                         \/ Val(sessionSecret) # r.qrData.payload.secret
                      THEN Respond([r EXCEPT !.sessionSecret = sessionSecret],
                                   "InvalidSecret", 400, FALSE)
                      ELSE [r EXCEPT !.sessionSecret = sessionSecret,
                                     !.pc = "qr_enrollment"]]
    /\ UNCHANGED <<now, classes, attendance_sessions, session_secrets,
                   attendance_records, issued, issueCount, twin>>

QrEnrollmentWithinGeofence(p) ==
    /\ req[p].kind = "qr" /\ req[p].pc = "qr_enrollment"
    /\ LET r == req[p]
           classData == classes[Val(r.session).class_id]
       IN  req' = [req EXCEPT ![p] =
                      IF ~Enrolled(Val(r.session).class_id, Val(r.user))
                      THEN Respond(r, "NotEnrolled", 403, FALSE)
                      ELSE IF /\ IsSome(r.latitude) /\ IsSome(r.longitude)
                              /\ GeofenceConfigured(classData)
                              /\ TooFar(calculateDistance(
                                            Val(r.latitude), Val(r.longitude),
                                            Val(classData.latitude),
                                            Val(classData.longitude)),
                                        AllowedRadius(classData))
                      THEN Respond(r, "TooFar", 400, FALSE)
                      ELSE Goto(r, "qr_existing")]
    /\ UNCHANGED <<now, classes, attendance_sessions, session_secrets,
                   attendance_records, issued, issueCount, twin>>

\* Lines 128-141
QrEnrollment(p) ==
    /\ req[p].kind = "qr" /\ req[p].pc = "qr_enrollment"
    /\ LET r == req[p]
       IN  req' = [req EXCEPT ![p] =
                      IF ~Enrolled(Val(r.session).class_id, Val(r.user))
                      THEN Respond(r, "NotEnrolled", 403, FALSE)
                      ELSE Goto(r, "qr_existing")]
    /\ UNCHANGED <<now, classes, attendance_sessions, session_secrets,
                   attendance_records, issued, issueCount, twin>>

\* Lines 143-159: the optimistic duplicate pre-check
QrExisting(p) ==
    /\ req[p].kind = "qr" /\ req[p].pc = "qr_existing"
    /\ LET r == req[p]
           existingRecord == ExistingRecord(Val(r.sessionId), Val(r.user))
       IN  req' = [req EXCEPT ![p] =
                      IF existingRecord
                      THEN Respond([r EXCEPT !.existingRecord = Some(TRUE)],
                                   "AlreadyRecorded", 400, FALSE)
                      ELSE [r EXCEPT !.existingRecord = Some(FALSE),
                                     !.pc = "qr_insert"]]
    /\ UNCHANGED <<now, classes, attendance_sessions, session_secrets,
                   attendance_records, issued, issueCount, twin>>

QrInsertReplyFails(p) ==
    /\ req[p].kind = "qr" /\ req[p].pc = "qr_insert"
    /\ LET r == req[p]
           session == Val(r.session)
           isLate == now - session.start > LateAfterMs
           row == Row(Val(r.sessionId), session.class_id, Val(r.user), "qr",
                      IF isLate THEN "late" ELSE "present", None)
       IN  /\ attendance_records' =
                  IF UniqueViolation(row) THEN attendance_records
                  ELSE Append(attendance_records, row)
           /\ req' = [req EXCEPT ![p] =
                         Respond(r, "InternalError", 500, FALSE)]
    /\ UNCHANGED <<now, classes, attendance_sessions, session_secrets, issued,
                   issueCount, twin>>

\* Lines 161-193: lateness, insert, and the reply to a refused insert
QrInsert(p) ==
    /\ req[p].kind = "qr" /\ req[p].pc = "qr_insert"
    /\ LET r == req[p]
           session == Val(r.session)
           isLate == now - session.start > LateAfterMs
           row == Row(Val(r.sessionId), session.class_id, Val(r.user), "qr",
                      IF isLate THEN "late" ELSE "present", None)
       IN  IF UniqueViolation(row)
           THEN /\ req' = [req EXCEPT ![p] =
                              Respond([r EXCEPT !.insertError =
                                             Some(UniqueViolationCode)],
                                       "InternalError", 500, FALSE)]
                /\ UNCHANGED attendance_records
           ELSE /\ attendance_records' = Append(attendance_records, row)
                /\ req' = [req EXCEPT ![p] = Respond(r, "Recorded", 200, TRUE)]
    /\ UNCHANGED <<now, classes, attendance_sessions, session_secrets, issued,
                   issueCount, twin>>

----------------------------------------------------------------------------
(* verify-proximity *)

WithBody(r, body) ==
    [r EXCEPT !.sessionId = body.sessionId, !.classId = body.classId,
              !.latitude = body.latitude, !.longitude = body.longitude,
              !.accuracy = body.accuracy, !.imageBase64 = body.imageBase64]

\* Lines 35-77: Authorization header, getUser, required fields, ranges
ProximityEntry(r) ==
    LET user == getUser(r.cred, now)
    IN  IF ~r.cred.header THEN Respond(r, "Unauthenticated", 401, FALSE)
        ELSE IF ~IsSome(user) THEN Respond(r, "Unauthenticated", 401, FALSE)
        ELSE IF ~IsSome(r.sessionId) \/ ~IsSome(r.classId)
                \/ ~IsSome(r.latitude) \/ ~IsSome(r.longitude)
             THEN Respond([r EXCEPT !.user = user], "MissingFields", 400, FALSE)
        ELSE IF OutOfRange(Val(r.latitude), Val(r.longitude))
             THEN Respond([r EXCEPT !.user = user], "InvalidCoordinates", 400,
                          FALSE)
        ELSE [r EXCEPT !.user = user, !.pc = "prox_session"]

SubmitProximity(p, creds, bodies) ==
    /\ req[p].pc = "idle"
    /\ \E cred \in creds, body \in bodies :
          req' = [req EXCEPT ![p] =
                     ProximityEntry(WithBody([Idle EXCEPT !.kind = "proximity",
                                                          !.cred = cred],
                                             body))]
    /\ UNCHANGED <<now, classes, attendance_sessions, session_secrets,
                   attendance_records, issued, issueCount, twin>>

ClassMismatchIgnored(session, classId) == FALSE

ClassMismatchWhenNoSuchClass(session, classId) == classId \notin ClassIds

\* Lines 100-106: session.class_id !== classId
ClassMismatch(session, classId) == session.class_id # classId

\* Lines 79-106: the session exists, is active, and belongs to classId
ProximitySessionLookup(p) ==
    /\ req[p].kind = "proximity" /\ req[p].pc = "prox_session"
    /\ LET r == req[p]
           session == SessionRow(Val(r.sessionId))
       IN  req' = [req EXCEPT ![p] =
                      IF ~IsSome(session)
                      THEN Respond(r, "NotFound", 404, FALSE)
                      ELSE IF ~Val(session).is_active
                      THEN Respond(r, "SessionClosed", 400, FALSE)
                      ELSE IF ClassMismatch(Val(session), Val(r.classId))
                      THEN Respond(r, "Mismatch", 400, FALSE)
                      ELSE [r EXCEPT !.session = session,
                                     !.pc = "prox_enrollment"]]
    /\ UNCHANGED <<now, classes, attendance_sessions, session_secrets,
                   attendance_records, issued, issueCount, twin>>

\* Lines 108-121
ProximityEnrollment(p) ==
    /\ req[p].kind = "proximity" /\ req[p].pc = "prox_enrollment"
    /\ LET r == req[p]
       IN  req' = [req EXCEPT ![p] =
                      IF ~Enrolled(Val(r.classId), Val(r.user))
                      THEN Respond(r, "NotEnrolled", 403, FALSE)
                      ELSE Goto(r, "prox_existing")]
    /\ UNCHANGED <<now, classes, attendance_sessions, session_secrets,
                   attendance_records, issued, issueCount, twin>>

\* Lines 123-140: the optimistic duplicate pre-check
ProximityExisting(p) ==
    /\ req[p].kind = "proximity" /\ req[p].pc = "prox_existing"
    /\ LET r == req[p]
           existingRecord == ExistingRecord(Val(r.sessionId), Val(r.user))
       IN  req' = [req EXCEPT ![p] =
                      IF existingRecord
                      THEN Respond([r EXCEPT !.existingRecord = Some(TRUE)],
                                   "AlreadyRecorded", 200, TRUE)
                      ELSE [r EXCEPT !.existingRecord = Some(FALSE),
                                     !.pc = "prox_class"]]
    /\ UNCHANGED <<now, classes, attendance_sessions, session_secrets,
                   attendance_records, issued, issueCount, twin>>

\* Lines 142-185: the class's geofence, the distance, and the score
\* (hundredths) that goes into the record
ProximityGate(r) ==
    LET classData == classes[Val(r.classId)]
        allowedRadius == AllowedRadius(classData)
        distance == calculateDistance(Val(r.latitude), Val(r.longitude),
                                      Val(classData.latitude),
                                      Val(classData.longitude))
    IN  IF GeofenceConfigured(classData)
        THEN IF TooFar(distance, allowedRadius)
             THEN Respond([r EXCEPT !.distance = Some(distance)], "TooFar",
                          400, FALSE)
             ELSE [r EXCEPT !.distance = Some(distance),
                            !.verificationScore =
                                Some(((allowedRadius - distance) * 100)
                                        \div allowedRadius),
                            !.pc = "prox_insert"]
        ELSE [r EXCEPT !.verificationScore =
                           IF IsSome(r.accuracy) /\ Val(r.accuracy) # 0
                           THEN LET v == 100 - Val(r.accuracy)
                                IN  Some(IF v < 0 THEN 0
                                         ELSE IF v > 100 THEN 100 ELSE v)
                           ELSE Some(50),
                       !.pc = "prox_insert"]

ProximityClass(p) ==
    /\ req[p].kind = "proximity" /\ req[p].pc = "prox_class"
    /\ req' = [req EXCEPT ![p] = ProximityGate(req[p])]
    /\ UNCHANGED <<now, classes, attendance_sessions, session_secrets,
                   attendance_records, issued, issueCount, twin>>

ProximityInsertUpsert(p) ==
    /\ req[p].kind = "proximity" /\ req[p].pc = "prox_insert"
    /\ LET r == req[p]
           row == Row(Val(r.sessionId), Val(r.classId), Val(r.user),
                      "proximity", "present", r.verificationScore)
       IN  IF UniqueViolation(row)
           THEN /\ attendance_records' =
                       [i \in 1..Len(attendance_records) |->
                           IF /\ attendance_records[i].session_id
                                    = row.session_id
                              /\ attendance_records[i].student_id
                                    = row.student_id
                           THEN row ELSE attendance_records[i]]
                /\ req' = [req EXCEPT ![p] =
                              Respond([r EXCEPT !.insertError =
                                             Some(UniqueViolationCode)],
                                       "AlreadyRecorded", 200, TRUE)]
           ELSE /\ attendance_records' = Append(attendance_records, row)
                /\ req' = [req EXCEPT ![p] = Respond(r, "Recorded", 200, TRUE)]
    /\ UNCHANGED <<now, classes, attendance_sessions, session_secrets, issued,
                   issueCount, twin>>

\* Lines 187-229: insert with status 'present'; a refusal with code 23505 is
\* answered like the pre-check
ProximityInsert(p) ==
    /\ req[p].kind = "proximity" /\ req[p].pc = "prox_insert"
    /\ LET r == req[p]
           row == Row(Val(r.sessionId), Val(r.classId), Val(r.user),
                      "proximity", "present", r.verificationScore)
       IN  IF UniqueViolation(row)
           THEN /\ req' = [req EXCEPT ![p] =
                              Respond([r EXCEPT !.insertError =
                                             Some(UniqueViolationCode)],
                                       "AlreadyRecorded", 200, TRUE)]
                /\ UNCHANGED attendance_records
           ELSE /\ attendance_records' = Append(attendance_records, row)
                /\ req' = [req EXCEPT ![p] = Respond(r, "Recorded", 200, TRUE)]
    /\ UNCHANGED <<now, classes, attendance_sessions, session_secrets, issued,
                   issueCount, twin>>

----------------------------------------------------------------------------
(* verify-face *)

\* Lines 31-91: image and session id, GPS, ranges, and only then the
\* Authorization header and getUser
FaceEntry(r) ==
    LET user == getUser(r.cred, now)
    IN  IF ~r.imageBase64 \/ ~IsSome(r.sessionId)
        THEN Respond(r, "MissingFields", 400, FALSE)
        ELSE IF ~IsSome(r.latitude) \/ ~IsSome(r.longitude)
        THEN Respond(r, "LocationRequired", 400, FALSE)
        ELSE IF OutOfRange(Val(r.latitude), Val(r.longitude))
        THEN Respond(r, "InvalidCoordinates", 400, FALSE)
        ELSE IF ~r.cred.header THEN Respond(r, "Unauthenticated", 401, FALSE)
        ELSE IF ~IsSome(user) THEN Respond(r, "Unauthenticated", 401, FALSE)
        ELSE [r EXCEPT !.user = user, !.pc = "face_embedding"]

SubmitFace(p, creds, bodies) ==
    /\ req[p].pc = "idle"
    /\ \E cred \in creds, body \in bodies :
          req' = [req EXCEPT ![p] =
                     FaceEntry(WithBody([Idle EXCEPT !.kind = "face",
                                                     !.cred = cred], body))]
    /\ UNCHANGED <<now, classes, attendance_sessions, session_secrets,
                   attendance_records, issued, issueCount, twin>>

\* Lines 93-109: the caller's stored face features
FaceEmbedding(p) ==
    /\ req[p].kind = "face" /\ req[p].pc = "face_embedding"
    /\ LET r == req[p]
       IN  req' = [req EXCEPT ![p] =
                      IF Val(r.user) \notin face_embeddings
                      THEN Respond(r, "FaceNotRegistered", 200, FALSE)
                      ELSE Goto(r, "face_session")]
    /\ UNCHANGED <<now, classes, attendance_sessions, session_secrets,
                   attendance_records, issued, issueCount, twin>>

\* Lines 111-126
FaceSessionLookup(p) ==
    /\ req[p].kind = "face" /\ req[p].pc = "face_session"
    /\ LET r == req[p]
           session == ActiveSessionRow(Val(r.sessionId))
       IN  req' = [req EXCEPT ![p] =
                      IF ~IsSome(session)
                      THEN Respond(r, "SessionInactive", 200, FALSE)
                      ELSE [r EXCEPT !.session = session,
                                     !.pc = "face_enrollment"]]
    /\ UNCHANGED <<now, classes, attendance_sessions, session_secrets,
                   attendance_records, issued, issueCount, twin>>

\* Lines 128-143
FaceEnrollment(p) ==
    /\ req[p].kind = "face" /\ req[p].pc = "face_enrollment"
    /\ LET r == req[p]
       IN  req' = [req EXCEPT ![p] =
                      IF ~Enrolled(Val(r.session).class_id, Val(r.user))
                      THEN Respond(r, "NotEnrolled", 200, FALSE)
                      ELSE Goto(r, "face_class")]
    /\ UNCHANGED <<now, classes, attendance_sessions, session_secrets,
                   attendance_records, issued, issueCount, twin>>

\* Lines 145-193: the geofence gate of face check-in
FaceGate(r) ==
    LET classData == classes[Val(r.session).class_id]
        allowedRadius == AllowedRadius(classData)
        distance == calculateDistance(Val(r.latitude), Val(r.longitude),
                                      Val(classData.latitude),
                                      Val(classData.longitude))
    IN  IF ~GeofenceConfigured(classData)
        THEN Respond(r, "ConfigurationError", 400, FALSE)
        ELSE IF TooFar(distance, allowedRadius)
        THEN Respond([r EXCEPT !.distance = Some(distance)], "TooFar", 200,
                     FALSE)
        ELSE [r EXCEPT !.distance = Some(distance), !.pc = "face_existing"]

FaceClass(p) ==
    /\ req[p].kind = "face" /\ req[p].pc = "face_class"
    /\ req' = [req EXCEPT ![p] = FaceGate(req[p])]
    /\ UNCHANGED <<now, classes, attendance_sessions, session_secrets,
                   attendance_records, issued, issueCount, twin>>

\* Lines 195-210: the optimistic duplicate pre-check
FaceExisting(p) ==
    /\ req[p].kind = "face" /\ req[p].pc = "face_existing"
    /\ LET r == req[p]
           existingRecord == ExistingRecord(Val(r.sessionId), Val(r.user))
       IN  req' = [req EXCEPT ![p] =
                      IF existingRecord
                      THEN Respond([r EXCEPT !.existingRecord = Some(TRUE)],
                                   "AlreadyRecorded", 200, FALSE)
                      ELSE [r EXCEPT !.existingRecord = Some(FALSE),
                                     !.pc = "face_oracle"]]
    /\ UNCHANGED <<now, classes, attendance_sessions, session_secrets,
                   attendance_records, issued, issueCount, twin>>

\* What the vision gateway can answer: a failed fetch, a non-2xx status, a
\* 2xx reply whose body is not JSON, a 2xx reply without content, content
\* that is not JSON, content that is JSON without the verdict's fields, or a
\* verdict
OracleReply(transport, content, face_detected, match_score, is_same_person) ==
    [transport |-> transport, content |-> content,
     face_detected |-> face_detected, match_score |-> match_score,
     is_same_person |-> is_same_person]

OracleReplies ==
    { OracleReply("threw", "none", FALSE, 0, FALSE),
      OracleReply("error", "none", FALSE, 0, FALSE),
      OracleReply("badbody", "none", FALSE, 0, FALSE),
      OracleReply("ok", "none", FALSE, 0, FALSE),
      OracleReply("ok", "fieldless", FALSE, 0, FALSE),
      OracleReply("ok", "garbage", FALSE, 0, FALSE),
      OracleReply("ok", "json", FALSE, 0, FALSE),
      OracleReply("ok", "json", TRUE, 70, FALSE),
      OracleReply("ok", "json", TRUE, 70, TRUE),
      OracleReply("ok", "json", TRUE, 75, TRUE),
      OracleReply("ok", "json", TRUE, 90, FALSE),
      OracleReply("ok", "json", TRUE, 90, TRUE) }

IsVerifiedByScore(reply) == reply.match_score >= FaceMatchThreshold

\* Lines 332-333: is_same_person && matchScore >= 0.75
IsVerified(reply) ==
    reply.is_same_person /\ reply.match_score >= FaceMatchThreshold

\* Lines 237-343: the oracle's answer and what the handler makes of it
FaceVerdict(r, reply) ==
    IF reply.transport = "threw" THEN Respond(r, "InternalError", 500, FALSE)
    ELSE IF reply.transport = "error"
    THEN Respond(r, "VerificationUnavailable", 503, FALSE)
    ELSE IF reply.transport = "badbody"
    THEN Respond(r, "InternalError", 500, FALSE)
    ELSE IF reply.content = "none"
    THEN Respond(r, "VerificationUnavailable", 503, FALSE)
    ELSE IF reply.content = "garbage"
    THEN Respond(r, "VerificationFailed", 500, FALSE)
    ELSE IF ~reply.face_detected
    THEN Respond(r, "NoFaceDetected", 200, FALSE)
    ELSE IF ~IsVerified(reply)
    THEN Respond([r EXCEPT !.matchScore = Some(reply.match_score)],
                 "LowMatchScore", 200, FALSE)
    ELSE [r EXCEPT !.matchScore = Some(reply.match_score),
                   !.pc = "face_insert"]

FaceOracle(p) ==
    /\ req[p].kind = "face" /\ req[p].pc = "face_oracle"
    /\ \E reply \in OracleReplies :
          req' = [req EXCEPT ![p] =
                     FaceVerdict([req[p] EXCEPT !.oracle = Some(reply)],
                                 reply)]
    /\ UNCHANGED <<now, classes, attendance_sessions, session_secrets,
                   attendance_records, issued, issueCount, twin>>

\* Lines 345-376: insert with status 'present'; any refusal is a failure
FaceInsert(p) ==
    /\ req[p].kind = "face" /\ req[p].pc = "face_insert"
    /\ LET r == req[p]
           row == Row(Val(r.sessionId), Val(r.session).class_id, Val(r.user),
                      "face", "present", r.matchScore)
       IN  IF UniqueViolation(row)
           THEN /\ req' = [req EXCEPT ![p] =
                              Respond([r EXCEPT !.insertError =
                                             Some(UniqueViolationCode)],
                                       "InsertFailed", 200, FALSE)]
                /\ UNCHANGED attendance_records
           ELSE /\ attendance_records' = Append(attendance_records, row)
                /\ req' = [req EXCEPT ![p] = Respond(r, "Recorded", 200, TRUE)]
    /\ UNCHANGED <<now, classes, attendance_sessions, session_secrets, issued,
                   issueCount, twin>>

----------------------------------------------------------------------------
(* generate-qr *)

\* Lines 18-78: Authorization header, decode() of the JWT, exp and sub
\* checks, sessionId of the body.
IssueEntry(r) ==
    LET userId == decodeUser(r.cred, now)
    IN  IF ~r.cred.header THEN Respond(r, "Unauthenticated", 401, FALSE)
        ELSE IF ~IsSome(userId) THEN Respond(r, "Unauthenticated", 401, FALSE)
        ELSE IF ~IsSome(r.sessionId)
             THEN Respond([r EXCEPT !.user = userId], "MissingFields", 400,
                          FALSE)
        ELSE [r EXCEPT !.user = userId, !.pc = "issue_session"]

SubmitIssue(p, creds, bodies) ==
    /\ req[p].pc = "idle"
    /\ issueCount < MaxIssues
    /\ \E cred \in creds, sessionId \in bodies :
          req' = [req EXCEPT ![p] =
                     IssueEntry([Idle EXCEPT !.kind = "issue", !.cred = cred,
                                             !.sessionId = sessionId])]
    /\ UNCHANGED <<now, classes, attendance_sessions, session_secrets,
                   attendance_records, issued, issueCount, twin>>

IsOwnerAnyProfessor(session, userId) == userId \in Professors

\* Lines 97-103: only the professor of the session's class may issue
IsOwner(session, userId) == classes[session.class_id].professor_id = userId

\* Lines 82-133: session lookup, owner check, fresh secret, signed payload
IssueSessionLookup(p) ==
    /\ req[p].kind = "issue" /\ req[p].pc = "issue_session"
    /\ LET r == req[p]
           session == SessionRow(Val(r.sessionId))
       IN  IF ~IsSome(session)
           THEN /\ req' = [req EXCEPT ![p] =
                              Respond(r, "NotFound", 404, FALSE)]
                /\ UNCHANGED issueCount
           ELSE IF ~IsOwner(Val(session), Val(r.user))
           THEN /\ req' = [req EXCEPT ![p] =
                              Respond(r, "Forbidden", 403, FALSE)]
                /\ UNCHANGED issueCount
           ELSE /\ issueCount' = issueCount + 1
                /\ req' = [req EXCEPT ![p] =
                              [r EXCEPT !.pc = "issue_store",
                                        !.token = Some(Token(Val(r.sessionId),
                                                             now,
                                                             issueCount + 1))]]
    /\ UNCHANGED <<now, classes, attendance_sessions, session_secrets,
                   attendance_records, issued, twin>>

\* Lines 135-150: update({ qr_secret }) on attendance_sessions, whose result
\* is not looked at, then the token is returned.
IssueStore(p) ==
    /\ req[p].kind = "issue" /\ req[p].pc = "issue_store"
    /\ LET r == req[p]
           token == Val(r.token)
       IN  /\ attendance_sessions' =
                  UpdateSession(attendance_sessions, Val(r.sessionId),
                                "qr_secret", Some(token.secret))
           /\ issued' = issued \cup {token}
           /\ req' = [req EXCEPT ![p] = Respond(r, "Issued", 200, TRUE)]
    /\ UNCHANGED <<now, classes, session_secrets, attendance_records,
                   issueCount, twin>>

----------------------------------------------------------------------------
(* Environment *)

\* The reply reaches the client, which is then free to send another request
Deliver(p) ==
    /\ req[p].pc = "done"
    /\ req' = [req EXCEPT ![p] = Idle]
    /\ UNCHANGED <<now, classes, attendance_sessions, session_secrets,
                   attendance_records, issued, issueCount, twin>>

\* Time passes
Tick ==
    /\ now < MaxNow
    /\ now' = now + TickMs
    /\ UNCHANGED <<classes, attendance_sessions, session_secrets,
                   attendance_records, issued, issueCount, req, twin>>

\* The professor ends the session (QRSessionsPage, handleEndSession)
EndSession(s) ==
    /\ attendance_sessions[s].is_active
    /\ attendance_sessions' =
           UpdateSession(attendance_sessions, s, "is_active", FALSE)
    /\ UNCHANGED <<now, classes, session_secrets, attendance_records, issued,
                   issueCount, req, twin>>

----------------------------------------------------------------------------

NoTwin == [run |-> 0, before |-> <<>>, after |-> <<>>]

Init ==
    /\ now = 0
    /\ classes = ClassesTable
    /\ twin = NoTwin
    /\ attendance_sessions =
           [s \in Sessions |->
               [id |-> s, class_id |-> SessionClass[s],
                start |-> SessionStart[s], is_active |-> TRUE]]
    /\ session_secrets =
           [s \in Sessions |-> IF s = "sA" THEN Some(MigratedSecret) ELSE None]
    /\ attendance_records = <<>>
    /\ issued = {MigratedToken("sA")}
    /\ issueCount = 0
    /\ req = [p \in Procs |-> Idle]

\* One request at a time, of any shape, while time passes and sessions end.
\* A reply is delivered before anything else happens: a finished invocation
\* takes no further part in the run.
Next ==
    \/ Settled /\ Tick
    \/ Settled /\ \E s \in Sessions : EndSession(s)
    \/ \E p \in Procs : Deliver(p)
    \/ Quiet /\ SubmitQr("a", CheckInCreds, QrBodies(issued))
    \/ Quiet /\ SubmitProximity("a", CheckInCreds, ProximityBodies)
    \/ Quiet /\ SubmitFace("a", CheckInCreds, FaceBodies)
    \/ Quiet /\ SubmitIssue("a", IssueCreds, IssueBodies)
    \/ \E p \in Procs : QrSessionLookup(p)
    \/ \E p \in Procs : QrSecretLookup(p)
    \/ \E p \in Procs : QrEnrollment(p)
    \/ \E p \in Procs : QrExisting(p)
    \/ \E p \in Procs : QrInsert(p)
    \/ \E p \in Procs : ProximitySessionLookup(p)
    \/ \E p \in Procs : ProximityEnrollment(p)
    \/ \E p \in Procs : ProximityExisting(p)
    \/ \E p \in Procs : ProximityClass(p)
    \/ \E p \in Procs : ProximityInsert(p)
    \/ \E p \in Procs : FaceEmbedding(p)
    \/ \E p \in Procs : FaceSessionLookup(p)
    \/ \E p \in Procs : FaceEnrollment(p)
    \/ \E p \in Procs : FaceClass(p)
    \/ \E p \in Procs : FaceExisting(p)
    \/ \E p \in Procs : FaceOracle(p)
    \/ \E p \in Procs : FaceInsert(p)
    \/ \E p \in Procs : IssueSessionLookup(p)
    \/ \E p \in Procs : IssueStore(p)

Spec == Init /\ [][Next]_vars

\* Two clients of one enrolled student race their check-ins into sA
NextRace ==
    \/ Tick
    \/ \E s \in Sessions : EndSession(s)
    \/ \E p \in Procs : Deliver(p)
    \/ \E p \in Procs : SubmitQr(p, RaceCreds, RaceQrBodies(issued))
    \/ \E p \in Procs : SubmitProximity(p, RaceCreds, RaceBodies)
    \/ \E p \in Procs : SubmitFace(p, RaceCreds, RaceBodies)
    \/ \E p \in Procs : QrSessionLookup(p)
    \/ \E p \in Procs : QrSecretLookup(p)
    \/ \E p \in Procs : QrEnrollment(p)
    \/ \E p \in Procs : QrExisting(p)
    \/ \E p \in Procs : QrInsert(p)
    \/ \E p \in Procs : ProximitySessionLookup(p)
    \/ \E p \in Procs : ProximityEnrollment(p)
    \/ \E p \in Procs : ProximityExisting(p)
    \/ \E p \in Procs : ProximityClass(p)
    \/ \E p \in Procs : ProximityInsert(p)
    \/ \E p \in Procs : FaceEmbedding(p)
    \/ \E p \in Procs : FaceSessionLookup(p)
    \/ \E p \in Procs : FaceEnrollment(p)
    \/ \E p \in Procs : FaceClass(p)
    \/ \E p \in Procs : FaceExisting(p)
    \/ \E p \in Procs : FaceOracle(p)
    \/ \E p \in Procs : FaceInsert(p)

SpecRace == Init /\ [][NextRace]_vars

\* calculateDistance on its own: two callers, each measuring from its own
\* place to the other's.  The places lie around the equator and around
\* 60.4 degrees north, where the cosine changes by a hundredth within
\* half a millidegree.
Places ==
    { <<lat, lon>> : lat \in {0, 449, 60425500, 60426000},
                     lon \in {0 - 200, 0, 200} }

Nearby(a, b) == a[1] - b[1] \in (0 - 1000)..1000

AtPlace(place) ==
    [Idle EXCEPT !.kind = "distance", !.latitude = Some(place[1]),
                 !.longitude = Some(place[2])]

InitDistance ==
    /\ now = 0
    /\ classes = ClassesTable
    /\ twin = NoTwin
    /\ attendance_sessions =
           [s \in Sessions |->
               [id |-> s, class_id |-> SessionClass[s],
                start |-> SessionStart[s], is_active |-> TRUE]]
    /\ session_secrets =
           [s \in Sessions |-> IF s = "sA" THEN Some(MigratedSecret) ELSE None]
    /\ attendance_records = <<>>
    /\ issued = {MigratedToken("sA")}
    /\ issueCount = 0
    /\ \E a \in Places, b \in Places :
          /\ Nearby(a, b)
          /\ req = [p \in Procs |-> AtPlace(IF p = "a" THEN a ELSE b)]

MeasureDistance(p) ==
    /\ req[p].kind = "distance" /\ req[p].pc = "idle"
    /\ \E q \in Procs \ {p} :
          req' = [req EXCEPT ![p] =
                     [@ EXCEPT !.pc = "done",
                               !.distance =
                                   Some(calculateDistance(
                                           Val(req[p].latitude),
                                           Val(req[p].longitude),
                                           Val(req[q].latitude),
                                           Val(req[q].longitude)))]]
    /\ UNCHANGED <<now, classes, attendance_sessions, session_secrets,
                   attendance_records, issued, issueCount, twin>>

NextDistance == \E p \in Procs : MeasureDistance(p)

SpecDistance == InitDistance /\ [][NextDistance]_vars

\* verify-qr run twice on the same store with the same credential and
\* qrData: once by client a, then, with the records put back as they were
\* and the geofence of class c1 possibly changed, by client b.  The two
\* clients may send any coordinates along.
Positions == { <<None, None>>, <<Some(0), Some(0)>>, <<Some(500), Some(0)>> }

GeofenceVariants ==
    { ClassesTable["c1"],
      [ClassesTable["c1"] EXCEPT !.latitude = Some(500)],
      [ClassesTable["c1"] EXCEPT !.proximity_radius_meters = Some(10)],
      [ClassesTable["c1"] EXCEPT !.latitude = None, !.longitude = None] }

InitTwin ==
    /\ now \in {0, TickMs, 2 * TickMs}
    /\ classes = ClassesTable
    /\ \E ended \in SUBSET {"sA"} :
          attendance_sessions =
              [s \in Sessions |->
                  [id |-> s, class_id |-> SessionClass[s],
                   start |-> SessionStart[s], is_active |-> s \notin ended]]
    /\ session_secrets =
           [s \in Sessions |-> IF s = "sA" THEN Some(MigratedSecret) ELSE None]
    /\ attendance_records \in
           { <<>>,
             <<Row("sA", "c1", "stu1", "proximity", "present", Some(100))>> }
    /\ \E n \in 0..MaxIssues :
          /\ issueCount = n
          /\ issued = {MigratedToken("sA")}
                         \cup { Token("sA", 0, k) : k \in 1..n }
    /\ req = [p \in Procs |-> Idle]
    /\ twin = [run |-> 1, before |-> attendance_records, after |-> <<>>]

FirstRun ==
    /\ twin.run = 1
    /\ SubmitQrFrom("a", CheckInCreds, QrBodies(issued), Positions)

\* The first run has answered: its records are kept for the comparison and
\* the store is put back
Rewind ==
    /\ twin.run = 1 /\ req["a"].pc = "done"
    /\ twin' = [twin EXCEPT !.run = 2, !.after = attendance_records]
    /\ attendance_records' = twin.before
    /\ \E geofence \in GeofenceVariants :
          classes' = [classes EXCEPT !["c1"] = geofence]
    /\ UNCHANGED <<now, attendance_sessions, session_secrets, issued,
                   issueCount, req>>

SecondRun ==
    /\ twin.run = 2
    /\ SubmitQrFrom("b", {req["a"].cred}, {req["a"].qrData}, Positions)

NextTwin ==
    \/ FirstRun
    \/ Rewind
    \/ SecondRun
    \/ \E p \in Procs : QrSessionLookup(p)
    \/ \E p \in Procs : QrSecretLookup(p)
    \/ \E p \in Procs : QrEnrollment(p)
    \/ \E p \in Procs : QrExisting(p)
    \/ \E p \in Procs : QrInsert(p)

SpecTwin == InitTwin /\ [][NextTwin]_vars

\* A handler that awaits the store is resumed: the store answers every
\* query.  The fetch to the vision gateway carries no timeout and no abort
\* signal, so nothing resumes a handler whose gateway call is not answered.
Fairness ==
    \A p \in Procs :
        /\ WF_vars(QrSessionLookup(p)) /\ WF_vars(QrSecretLookup(p))
        /\ WF_vars(QrEnrollment(p)) /\ WF_vars(QrExisting(p))
        /\ WF_vars(QrInsert(p))
        /\ WF_vars(ProximitySessionLookup(p))
        /\ WF_vars(ProximityEnrollment(p)) /\ WF_vars(ProximityExisting(p))
        /\ WF_vars(ProximityClass(p)) /\ WF_vars(ProximityInsert(p))
        /\ WF_vars(FaceEmbedding(p)) /\ WF_vars(FaceSessionLookup(p))
        /\ WF_vars(FaceEnrollment(p)) /\ WF_vars(FaceClass(p))
        /\ WF_vars(FaceExisting(p)) /\ WF_vars(FaceInsert(p))
        /\ WF_vars(IssueSessionLookup(p)) /\ WF_vars(IssueStore(p))

SpecLive == Init /\ [][Next]_vars /\ Fairness

----------------------------------------------------------------------------
(* Properties *)

CheckInKinds == {"qr", "proximity", "face"}

RecordsOf(s, u) ==
    { i \in 1..Len(attendance_records) :
         /\ attendance_records[i].session_id = s
         /\ attendance_records[i].student_id = u }

\* The reply a handler gives when the store refuses its insert
RefusedReply ==
    [k \in CheckInKinds |->
        CASE k = "qr" -> "InternalError"
          [] k = "proximity" -> "AlreadyRecorded"
          [] k = "face" -> "InsertFailed"]

\* The invocation passed the duplicate pre-check and its insert was refused
InsertRefused(r) ==
    /\ r.pc = "done" /\ r.kind \in CheckInKinds
    /\ r.existingRecord = Some(FALSE)
    /\ r.outcome = RefusedReply[r.kind]

\* The invocation is a finished verify-qr call of an authenticated caller
\* whose qrData parsed
QrPresented(r) ==
    /\ r.pc = "done" /\ r.kind = "qr"
    /\ IsSome(r.user) /\ r.qrData.form = "json"

\* No token for the same session was issued after t
LatestToken(t) ==
    /\ t \in issued
    /\ \A t2 \in issued : t2.sessionId = t.sessionId => t2.secret <= t.secret

\* t is a token of generate-qr with one field changed and the signature kept
TamperedToken(t) ==
    /\ t \notin issued
    /\ \E t0 \in issued : t.signature = t0.signature

\* C1: in every reachable state, whatever the number of check-in requests,
\* their methods and their interleaving, attendance_records holds at most one
\* row for any (session, student) pair.
AtMostOneRecordPerStudent ==
    \A i, j \in 1..Len(attendance_records) :
        (/\ attendance_records[i].session_id = attendance_records[j].session_id
         /\ attendance_records[i].student_id = attendance_records[j].student_id)
        => i = j

\* Two check-ins of one student into one session by different methods both
\* passed the pre-check; one inserted, the other's insert was refused.
RacingInsertRefused ==
    \E p, q \in Procs :
        /\ req[p].pc = "done" /\ req[p].outcome = "Recorded"
        /\ InsertRefused(req[q])
        /\ req[p].kind # req[q].kind
        /\ req[p].sessionId = req[q].sessionId
        /\ req[p].user = req[q].user
        /\ Cardinality(RecordsOf(Val(req[p].sessionId), Val(req[p].user))) = 1

\* C2: when a QR check-in and a proximity check-in of the same student into
\* the same session run concurrently (neither saw a record at its pre-check)
\* and both pass verification, exactly one answers Recorded, the other
\* answers AlreadyRecorded, and exactly one row exists for the pair.
RaceRecordedAndAlreadyRecorded ==
    \A p, q \in Procs :
        (/\ req[p].pc = "done" /\ req[p].kind = "qr"
         /\ req[q].pc = "done" /\ req[q].kind = "proximity"
         /\ req[p].existingRecord = Some(FALSE)
         /\ req[q].existingRecord = Some(FALSE)
         /\ req[p].sessionId = req[q].sessionId
         /\ req[p].user = req[q].user)
        => /\ {req[p].outcome, req[q].outcome} = {"Recorded", "AlreadyRecorded"}
           /\ Cardinality(RecordsOf(Val(req[p].sessionId),
                                    Val(req[p].user))) = 1

\* C3: a token returned by generate-qr for an active session, presented
\* unmodified to verify-qr by an enrolled student who has no record yet, not
\* later than its expiresAt and with no reissue in between, is answered
\* Recorded.
IssuedTokenRecords ==
    \A p \in Procs :
        LET r == req[p]
            t == r.qrData.payload
        IN  (/\ QrPresented(r)
             /\ LatestToken(t)
             /\ r.checkedAt <= t.expiresAt
             /\ attendance_sessions[t.sessionId].is_active
             /\ Enrolled(attendance_sessions[t.sessionId].class_id,
                         Val(r.user))
             /\ r.existingRecord # Some(TRUE))
            => r.outcome = "Recorded"

\* C4: once generate-qr has issued a second token for a session, every
\* verification of an earlier token of that session is answered Invalid even
\* before that token's expiresAt, so that only the most recently issued
\* token of a session can pass verification.
ReissueInvalidatesEarlierToken ==
    \A p \in Procs :
        LET r == req[p]
            t == r.qrData.payload
        IN  /\ (/\ QrPresented(r)
                /\ t \in issued /\ ~LatestToken(t)
                /\ r.checkedAt <= t.expiresAt
                /\ IsSome(r.session))
               => r.outcome = "InvalidSecret"
            /\ (QrPresented(r) /\ r.outcome = "Recorded") => LatestToken(t)

\* C5: a token issued at time t carries expiresAt = t + 30000 ms, and a
\* verify-qr call that presents it later than that is answered Expired and
\* creates no record.
ExpiredTokenRejected ==
    /\ [](/\ \A t \in issued : t.expiresAt = t.timestamp + 30000
          /\ \A p \in Procs :
                /\ (req[p].kind = "issue" /\ IsSome(req[p].token))
                   => /\ Val(req[p].token).timestamp <= now
                      /\ Val(req[p].token).expiresAt =
                             Val(req[p].token).timestamp + 30000
                /\ (/\ QrPresented(req[p])
                    /\ req[p].qrData.payload \in issued
                    /\ req[p].checkedAt > req[p].qrData.payload.timestamp
                                             + 30000)
                   => req[p].outcome = "Expired")
    /\ [][\A p \in Procs :
             (/\ req[p].pc # "done" /\ req'[p].pc = "done"
              /\ req'[p].outcome = "Expired")
             => attendance_records' = attendance_records]_vars

\* A token that generate-qr issued in the run was presented after its
\* lifetime
IssuedTokenPresentedLate ==
    \E p \in Procs :
        /\ QrPresented(req[p])
        /\ req[p].qrData.payload \in issued
        /\ req[p].qrData.payload.secret # MigratedSecret
        /\ req[p].checkedAt > req[p].qrData.payload.expiresAt
        /\ req[p].outcome = "Expired"

\* C6: a token in which a field differs from what generate-qr signed and
\* which carries the original signature is rejected by verify-qr and creates
\* no record: the answer is Invalid whenever the expiresAt it carries has
\* not passed (the expiry check comes first), and the call never gets past
\* the signature check.
TamperedTokenRejected ==
    /\ [](\A p \in Procs :
             LET r == req[p]
                 t == r.qrData.payload
             IN  /\ (/\ QrPresented(r) /\ TamperedToken(t)
                     /\ r.checkedAt <= t.expiresAt)
                    => r.outcome = "InvalidSignature"
                 /\ (QrPresented(r) /\ TamperedToken(t))
                    => r.outcome \in {"InvalidSignature", "Expired"}
                 /\ (/\ r.kind = "qr" /\ r.qrData.form = "json"
                     /\ TamperedToken(t))
                    => r.pc \in {"idle", "done"})
    /\ [][\A p \in Procs :
             (/\ req[p].pc # "done" /\ req'[p].pc = "done"
              /\ req'[p].outcome = "InvalidSignature")
             => attendance_records' = attendance_records]_vars

\* A token whose expiresAt was extended beyond the signed one was presented
\* after the signed expiresAt and before the extended one
ExtendedExpiryPresented ==
    \E p \in Procs :
        LET r == req[p]
            t == r.qrData.payload
        IN  /\ QrPresented(r)
            /\ \E t0 \in issued : /\ t.signature = t0.signature
                                  /\ t.expiresAt > t0.expiresAt
                                  /\ r.checkedAt > t0.expiresAt
            /\ r.checkedAt <= t.expiresAt
            /\ r.outcome = "InvalidSignature"

\* C7: generate-qr called by an authenticated caller who is not the
\* professor of the session's class answers Forbidden, called for a session
\* that does not exist answers NotFound; in both cases no token is returned
\* and the stored secret of every session is unchanged.
IssueRefusedWithoutEffect ==
    /\ [](\A p \in Procs :
             LET r == req[p]
             IN  (/\ r.pc = "done" /\ r.kind = "issue"
                  /\ IsSome(r.user) /\ IsSome(r.sessionId))
                 => /\ Val(r.sessionId) \notin Sessions
                       => r.outcome = "NotFound" /\ ~IsSome(r.token)
                    /\ (/\ Val(r.sessionId) \in Sessions
                        /\ classes[SessionClass[Val(r.sessionId)]].professor_id
                              # Val(r.user))
                       => r.outcome = "Forbidden" /\ ~IsSome(r.token))
    /\ [][\A p \in Procs :
             (/\ req[p].pc # "done" /\ req'[p].pc = "done"
              /\ req'[p].outcome \in {"Forbidden", "NotFound"}
              /\ req'[p].kind = "issue")
             => /\ session_secrets' = session_secrets
                /\ attendance_sessions' = attendance_sessions
                /\ issued' = issued]_vars

\* A professor with a valid credential asked for a token of a session of
\* somebody else's class
IssueForbidden ==
    \E p \in Procs :
        /\ req[p].pc = "done" /\ req[p].kind = "issue"
        /\ IsSome(getUser(req[p].cred, now))
        /\ IsSome(req[p].sessionId)
        /\ Val(req[p].sessionId) \in Sessions
        /\ req[p].outcome = "Forbidden"

\* C8: for generate-qr and for each of the three check-in functions, a
\* request without a valid credential is answered Unauthenticated, whatever
\* else is wrong with it.
UnauthenticatedFirst ==
    \A p \in Procs :
        (/\ req[p].pc = "done"
         /\ req[p].kind \in CheckInKinds \cup {"issue"}
         /\ ~IsSome(getUser(req[p].cred, now)))
        => req[p].outcome = "Unauthenticated"

\* C9: a check-in by any method against a session whose is_active is false
\* is rejected and creates no record.
InactiveSessionRejected ==
    /\ [](\A p \in Procs :
             (/\ req[p].kind \in CheckInKinds
              /\ req[p].outcome = "Recorded")
             => IsSome(req[p].session) /\ Val(req[p].session).is_active)
    /\ [][\A p \in Procs :
             (/\ req[p].pc \in {"qr_session", "prox_session", "face_session"}
              /\ req'[p] # req[p]
              /\ Val(req[p].sessionId) \in Sessions
              /\ ~attendance_sessions[Val(req[p].sessionId)].is_active)
             => /\ req'[p].pc = "done"
                /\ req'[p].outcome \in {"SessionInactive", "SessionClosed"}
                /\ ~req'[p].success \/ req'[p].status # 200
                /\ attendance_records' = attendance_records]_vars

\* An enrolled student presented a valid, unexpired token of a session that
\* had been ended
ValidTokenOfEndedSession ==
    \E p \in Procs :
        LET r == req[p]
            t == r.qrData.payload
        IN  /\ QrPresented(r) /\ LatestToken(t)
            /\ r.checkedAt <= t.expiresAt
            /\ ~attendance_sessions[t.sessionId].is_active
            /\ Enrolled(attendance_sessions[t.sessionId].class_id, Val(r.user))
            /\ r.outcome = "SessionInactive"

\* C10: a check-in by any method of a student who is not enrolled in the
\* session's class is answered NotEnrolled once the checks that precede the
\* enrollment check have passed, and no record of a student who is not
\* enrolled in the record's class is ever created.
NotEnrolledRejected ==
    /\ \A p \in Procs :
          LET r == req[p]
          IN  (/\ r.pc = "done" /\ r.kind \in CheckInKinds
               /\ IsSome(r.user) /\ IsSome(r.session)
               /\ r.kind = "qr"
                  => r.sessionSecret = Some(r.qrData.payload.secret)
               /\ <<Val(r.session).class_id, Val(r.user)>>
                     \notin class_enrollments)
              => r.outcome = "NotEnrolled"
    /\ \A p \in Procs :
          (req[p].kind \in CheckInKinds /\ req[p].outcome = "Recorded")
          => <<SessionClass[Val(req[p].sessionId)], Val(req[p].user)>>
                \in class_enrollments
    /\ \A i \in 1..Len(attendance_records) :
          /\ attendance_records[i].class_id
                = SessionClass[attendance_records[i].session_id]
          /\ <<attendance_records[i].class_id,
               attendance_records[i].student_id>> \in class_enrollments

\* A student of another class presented a valid, unexpired token of an
\* active session
OutsiderPresentedValidToken ==
    \E p \in Procs :
        LET r == req[p]
            t == r.qrData.payload
        IN  /\ QrPresented(r) /\ LatestToken(t)
            /\ r.checkedAt <= t.expiresAt
            /\ IsSome(r.session)
            /\ <<Val(r.session).class_id, Val(r.user)>> \notin class_enrollments
            /\ r.outcome = "NotEnrolled"

\* The geofence radius, in millimetres, that applies to an invocation whose
\* session lookup succeeded
RadiusOf(r) == AllowedRadius(classes[Val(r.session).class_id])

\* A reply of the vision gateway that is non-2xx, empty, or malformed
OracleFailure(reply) ==
    \/ reply.transport \in {"error", "badbody"}
    \/ /\ reply.transport = "ok"
       /\ reply.content \in {"none", "garbage", "fieldless"}

\* C11: for every check-in method, a record that is created has status late
\* when the insert happens more than 10 minutes after the session's start,
\* and status present otherwise.
RecordStatusFollowsLateness ==
    [][Len(attendance_records') = Len(attendance_records) + 1
       => LET row == attendance_records'[Len(attendance_records')]
          IN  row.status =
                  IF now - attendance_sessions[row.session_id].start
                        > LateAfterMs
                  THEN "late" ELSE "present"]_vars

\* C12: a proximity check-in against a class whose geofence centre is unset
\* is answered ConfigurationError and never creates a record.
ProximityFailsClosedWithoutGeofence ==
    /\ \A p \in Procs :
          LET r == req[p]
          IN  (/\ r.pc = "done" /\ r.kind = "proximity"
               /\ r.existingRecord = Some(FALSE)
               /\ ~GeofenceConfigured(classes[Val(r.classId)]))
              => r.outcome = "ConfigurationError"
    /\ \A i \in 1..Len(attendance_records) :
          attendance_records[i].method_used = "proximity"
          => GeofenceConfigured(classes[attendance_records[i].class_id])

OracleFailureIsUnavailable ==
    \A p \in Procs :
        LET r == req[p]
        IN  (/\ r.pc = "done" /\ r.kind = "face"
             /\ IsSome(r.oracle) /\ OracleFailure(Val(r.oracle)))
            => r.outcome = "VerificationUnavailable"

\* C16: for each check-in method, when the insert is refused by the
\* uniqueness constraint on (session, student), the request's outcome is
\* AlreadyRecorded and no other failure.
RefusedInsertIsAlreadyRecorded ==
    \A p \in Procs :
        (/\ req[p].pc = "done" /\ req[p].kind \in CheckInKinds
         /\ req[p].insertError = Some(UniqueViolationCode))
        => req[p].outcome = "AlreadyRecorded"

\* C17: every check-in request whose outcome is a failure other than
\* AlreadyRecorded leaves attendance_records exactly as it was: the table
\* changes only in the step in which a request ends Recorded, and then by
\* that request's row alone.
FailuresLeaveRecordsUnchanged ==
    /\ [][\A p \in Procs :
             (/\ req[p].pc # "done" /\ req'[p].pc = "done"
              /\ req'[p].outcome \notin {"Recorded", "AlreadyRecorded"})
             => attendance_records' = attendance_records]_vars
    /\ [][attendance_records' # attendance_records
          => \E p \in Procs :
                /\ req[p].pc # "done" /\ req'[p].pc = "done"
                /\ req'[p].kind \in CheckInKinds
                /\ req'[p].outcome = "Recorded"
                /\ Len(attendance_records') = Len(attendance_records) + 1
                /\ SubSeq(attendance_records', 1, Len(attendance_records))
                      = attendance_records
                /\ LET row == attendance_records'[Len(attendance_records')]
                   IN  /\ row.session_id = Val(req[p].sessionId)
                       /\ row.student_id = Val(req[p].user)]_vars

\* A face check-in that passed every gate failed at its insert, next to the
\* one record of the request that won
FaceFailedAtInsert ==
    \E p \in Procs :
        /\ req[p].pc = "done" /\ req[p].kind = "face"
        /\ req[p].outcome = "InsertFailed"
        /\ Cardinality(RecordsOf(Val(req[p].sessionId), Val(req[p].user))) = 1

\* C18: for every check-in method, a request of a student who already has a
\* record for the session is answered AlreadyRecorded as a success-flavoured
\* outcome, not as a failure, and the existing record is neither modified
\* nor duplicated.
AlreadyRecordedIsSuccess ==
    \A p \in Procs :
        LET r == req[p]
        IN  (/\ r.pc = "done" /\ r.kind \in CheckInKinds
             /\ r.existingRecord = Some(TRUE))
            => /\ r.outcome = "AlreadyRecorded"
               /\ r.success /\ r.status = 200
               /\ Cardinality(RecordsOf(Val(r.sessionId), Val(r.user))) = 1

\* C19: a check-in that supplies a classId different from the class of the
\* referenced session is answered Mismatch and creates no record; the
\* supplied classId is never replaced by the session's class.
ClassMismatchRejected ==
    /\ \A p \in Procs :
          LET r == req[p]
          IN  /\ (/\ r.pc = "done" /\ r.kind = "proximity"
                  /\ IsSome(r.user)
                  /\ IsSome(r.sessionId) /\ IsSome(r.classId)
                  /\ IsSome(r.latitude) /\ IsSome(r.longitude)
                  /\ ~OutOfRange(Val(r.latitude), Val(r.longitude))
                  /\ Val(r.sessionId) \in Sessions
                  /\ Val(r.classId) # SessionClass[Val(r.sessionId)])
                 => /\ r.outcome \in {"Mismatch", "SessionClosed"}
                    /\ attendance_sessions[Val(r.sessionId)].is_active
                       => r.outcome = "Mismatch"
              /\ (r.kind = "proximity" /\ IsSome(r.session))
                 => r.classId = Some(SessionClass[Val(r.sessionId)])
    /\ \A i \in 1..Len(attendance_records) :
          attendance_records[i].method_used = "proximity"
          => attendance_records[i].class_id
                = SessionClass[attendance_records[i].session_id]

\* A student named a class they are enrolled in together with a session of
\* another class
EnrolledClassWithForeignSession ==
    \E p \in Procs :
        LET r == req[p]
        IN  /\ r.pc = "done" /\ r.kind = "proximity"
            /\ IsSome(r.user) /\ IsSome(r.classId) /\ IsSome(r.sessionId)
            /\ <<Val(r.classId), Val(r.user)>> \in class_enrollments
            /\ Val(r.sessionId) \in Sessions
            /\ Val(r.classId) # SessionClass[Val(r.sessionId)]
            /\ r.outcome = "Mismatch"

\* C20: every issue and check-in request eventually returns a result; in
\* particular a face check-in whose oracle call is not answered does not
\* wait forever.
EveryRequestReturns ==
    \A p \in Procs :
        (req[p].pc \notin {"idle", "done"}) ~> (req[p].pc = "done")

\* C21: the distance function is symmetric: calculateDistance(a, b) equals
\* calculateDistance(b, a) for all coordinate pairs a and b.
DistanceSymmetric ==
    \A p, q \in Procs :
        (/\ req[p].kind = "distance" /\ req[p].pc = "done"
         /\ req[q].kind = "distance" /\ req[q].pc = "done")
        => req[p].distance = req[q].distance

\* Both directions were measured between two places of different latitude
\* and longitude whose cosines differ
MeasuredAcrossLatitudes ==
    /\ \A p \in Procs : req[p].kind = "distance" /\ req[p].pc = "done"
    /\ Cos(Val(req["a"].latitude)) # Cos(Val(req["b"].latitude))
    /\ req["a"].longitude # req["b"].longitude
    /\ Val(req["a"].distance) > 0

\* C22: QR verification applies its checks in the order expiry, signature,
\* session active, stored-secret equality, and the outcome is that of the
\* first check that fails: an expired token yields Expired whatever its
\* signature, and a validly signed, unexpired token of an inactive session
\* yields SessionInactive whatever its secret.
QrChecksInOrder ==
    /\ [](\A p \in Procs :
            LET r == req[p]
                payload == r.qrData.payload
            IN  QrPresented(r) =>
                  /\ TokenExpired(payload, r.checkedAt)
                        => r.outcome = "Expired"
                  /\ (~TokenExpired(payload, r.checkedAt)
                         /\ ~SignatureValid(payload))
                        => r.outcome = "InvalidSignature"
                  /\ r.outcome = "SessionInactive"
                        => /\ ~TokenExpired(payload, r.checkedAt)
                           /\ SignatureValid(payload)
                  /\ r.outcome = "InvalidSecret"
                        => /\ ~TokenExpired(payload, r.checkedAt)
                           /\ SignatureValid(payload)
                           /\ IsSome(r.session))
    /\ [][\A p \in Procs :
             (req[p].kind = "qr" /\ req[p].pc = "qr_session"
                /\ req'[p] # req[p])
             => IF attendance_sessions[Val(req[p].sessionId)].is_active
                THEN req'[p].pc = "qr_secret"
                ELSE req'[p].pc = "done"
                     /\ req'[p].outcome = "SessionInactive"]_vars
    /\ [][\A p \in Procs :
             (req[p].kind = "qr" /\ req[p].pc = "qr_secret"
                /\ req'[p] # req[p])
             => IF session_secrets[Val(req[p].sessionId)]
                      = Some(req[p].qrData.payload.secret)
                THEN req'[p].pc = "qr_enrollment"
                ELSE req'[p].pc = "done"
                     /\ req'[p].outcome = "InvalidSecret"]_vars

\* A validly signed, unexpired token whose secret is not the stored one was
\* presented for a session that had been ended
StaleSecretOfEndedSession ==
    \E p \in Procs :
        LET r == req[p]
            payload == r.qrData.payload
        IN  /\ QrPresented(r) /\ r.outcome = "SessionInactive"
            /\ SignatureValid(payload)
            /\ ~TokenExpired(payload, r.checkedAt)
            /\ payload.sessionId \in Sessions
            /\ ~attendance_sessions[payload.sessionId].is_active
            /\ session_secrets[payload.sessionId] # Some(payload.secret)

\* C23: for every method the method's own verification is evaluated before
\* the duplicate check: a request whose evidence fails verification is
\* answered with that verification error and never AlreadyRecorded, even
\* when a record for the (session, student) exists.  Here: an enrolled
\* student's proximity or face check-in from outside the geofence of an
\* active session ends TooFar.
VerificationBeforeDuplicateCheck ==
    \A p \in Procs :
        LET r == req[p]
            classData == classes[Val(r.session).class_id]
        IN  (/\ r.pc = "done" /\ r.kind \in {"proximity", "face"}
             /\ IsSome(r.session)
             /\ Enrolled(Val(r.session).class_id, Val(r.user))
             /\ GeofenceConfigured(classData)
             /\ TooFar(calculateDistance(Val(r.latitude), Val(r.longitude),
                                          Val(classData.latitude),
                                          Val(classData.longitude)),
                        AllowedRadius(classData)))
            => r.outcome = "TooFar"

\* The attendance status of student u in session s
StatusOf(records, s, u) ==
    IF \E i \in 1..Len(records) :
          records[i].session_id = s /\ records[i].student_id = u
    THEN LET i == CHOOSE i \in 1..Len(records) :
                     records[i].session_id = s /\ records[i].student_id = u
         IN  records[i].status
    ELSE "unmarked"

\* C24: for each (session, student) pair the status only moves from unmarked
\* to present or from unmarked to late and then never changes: no check-in
\* by any method updates or deletes an existing record, and no check-in
\* creates a record with status absent.
StatusOnlyLeavesUnmarked ==
    /\ [](\A i \in 1..Len(attendance_records) :
            attendance_records[i].status \in {"present", "late"})
    /\ [][/\ Len(attendance_records') >= Len(attendance_records)
          /\ SubSeq(attendance_records', 1, Len(attendance_records))
                = attendance_records
          /\ \A s \in Sessions, u \in Users :
                \/ StatusOf(attendance_records', s, u)
                      = StatusOf(attendance_records, s, u)
                \/ /\ StatusOf(attendance_records, s, u) = "unmarked"
                   /\ StatusOf(attendance_records', s, u)
                         \in {"present", "late"}]_vars

\* A student recorded late tried again by proximity, which would have
\* recorded present, and the record is still the late one
LateRecordSurvivesRetry ==
    \E p \in Procs :
        LET r == req[p]
        IN  /\ r.pc = "done" /\ r.kind = "proximity"
            /\ r.outcome = "AlreadyRecorded"
            /\ StatusOf(attendance_records, Val(r.sessionId), Val(r.user))
                  = "late"

\* C25: issue never returns a token, and never writes a session's secret,
\* for a bearer credential that the identity provider would not accept,
\* such as one with a forged signature or one without an expiry claim.
IssueRequiresAcceptedCredential ==
    \A p \in Procs :
        LET r == req[p]
        IN  (r.kind = "issue" /\ (IsSome(r.token) \/ r.outcome = "Issued"))
            => IsSome(getUser(r.cred, now))

\* C26: no attendance record is inserted for a session at a moment when the
\* session's active flag is already false, also when the professor ends the
\* session while a check-in that passed its liveness check is in flight.
InsertOnlyIntoActiveSession ==
    [][Len(attendance_records') > Len(attendance_records)
       => LET row == attendance_records'[Len(attendance_records')]
          IN  attendance_sessions[row.session_id].is_active]_vars

\* C27: every attendance record created by a check-in, by any method,
\* carries the class of its session: record.class_id equals the class_id
\* of the session named by record.session_id.
RecordCarriesSessionClass ==
    \A i \in 1..Len(attendance_records) :
        LET row == attendance_records[i]
        IN  /\ row.session_id \in DOMAIN attendance_sessions
            /\ row.class_id = attendance_sessions[row.session_id].class_id

\* Records of two classes, one of them written by verify-proximity from
\* the classId of its request
ProximityRecordNextToAnotherClass ==
    \E i, j \in 1..Len(attendance_records) :
        /\ attendance_records[i].method_used = "proximity"
        /\ attendance_records[j].method_used # "proximity"
        /\ attendance_records[i].class_id # attendance_records[j].class_id

\* The session that generate-qr signed into the token whose signature the
\* payload carries
SignedSessionIs(payload, s) ==
    \E t \in issued : t.signature = payload.signature /\ t.sessionId = s

\* C28: a token issued for session A never authorizes a check-in into a
\* different session B: a payload passes verify-qr's token verification only
\* for the session that issue signed into it, and the record of a successful
\* QR check-in belongs to that session.
TokenBoundToItsSession ==
    /\ [](\A p \in Procs :
            (req[p].kind = "qr" /\ IsSome(req[p].sessionId))
            => SignedSessionIs(req[p].qrData.payload, Val(req[p].sessionId)))
    /\ [][\A p \in Procs :
             (/\ req[p].kind = "qr" /\ req[p].pc = "qr_insert"
              /\ req'[p].pc = "done" /\ req'[p].outcome = "Recorded")
             => /\ Len(attendance_records') = Len(attendance_records) + 1
                /\ LET row == attendance_records'[Len(attendance_records')]
                   IN  /\ row.method_used = "qr"
                       /\ SignedSessionIs(req[p].qrData.payload,
                                          row.session_id)]_vars

\* A student with a QR record in the token's session presented the same
\* token with the other session's id in it, and has no record there
TokenPresentedForOtherSession ==
    \E p \in Procs :
        LET r == req[p]
            payload == r.qrData.payload
        IN  /\ QrPresented(r)
            /\ ~TokenExpired(payload, r.checkedAt)
            /\ \E t \in issued :
                  /\ t.signature = payload.signature
                  /\ t.sessionId # payload.sessionId
                  /\ payload = [t EXCEPT !.sessionId = payload.sessionId]
                  /\ StatusOf(attendance_records, t.sessionId, Val(r.user))
                        # "unmarked"
            /\ r.outcome = "InvalidSignature"
            /\ payload.sessionId \in Sessions
            /\ StatusOf(attendance_records, payload.sessionId, Val(r.user))
                  = "unmarked"

\* C29: the outcome of a QR check-in does not depend on the class's geofence
\* or on the student's position: two runs that differ only in the geofence
\* centre or radius, or in the coordinates sent with the request, return
\* the same result and leave the same records.
QrIgnoresGeofenceAndPosition ==
    (twin.run = 2 /\ req["b"].pc = "done")
    => /\ req["b"].outcome = req["a"].outcome
       /\ req["b"].status = req["a"].status
       /\ req["b"].success = req["a"].success
       /\ attendance_records = twin.after

\* The second run recorded from 55 m away after the geofence was changed,
\* as the first had from the classroom
RecordedOutsideChangedGeofence ==
    /\ twin.run = 2 /\ req["b"].pc = "done"
    /\ req["b"].outcome = "Recorded"
    /\ classes["c1"] # ClassesTable["c1"]
    /\ req["a"].latitude = Some(0) /\ req["b"].latitude = Some(500)
    /\ Len(attendance_records) = Len(twin.before) + 1

\* C30: every record created through QR check-in is inserted at a time not
\* later than the expiresAt of the token that authorized it, also when time
\* advances between the request's expiry check and its insert.
QrInsertBeforeExpiry ==
    [][\A p \in Procs :
          (/\ req[p].kind = "qr" /\ req[p].pc = "qr_insert"
           /\ Len(attendance_records') > Len(attendance_records))
          => ~TokenExpired(req[p].qrData.payload, now)]_vars

====
